---- MODULE Spec2Model ----
(***************************************************************************)
(* Model of the COPF/Clef Python SDK: the in-memory concept storage        *)
(* (clef/storage.py), the handler dispatch (copf/handler.py), the registry *)
(* (copf/registry.py), the /invoke and /query request processing and the  *)
(* two HTTP servers, serve on aiohttp and _serve_stdlib on http.server     *)
(* (copf/transport.py).                                                    *)
(***************************************************************************)
EXTENDS Integers, Sequences, FiniteSets, TLC

VARIABLES
    registry,   \* _REGISTRY: concept uri -> [handler, storage]
    origin,     \* history: concept uri -> whether the caller supplied the storage of its binding
    heap,       \* the InMemoryStorage instances created so far; a storage is named by its index
    now,        \* the wall clock read by time.time(), in whole seconds
    written,    \* history: the <<storage, relation, key>> triples ever put
    last,       \* history: the last completed operation, its arguments and its outcome
    backend,    \* the server that runs: "aiohttp", "stdlib", or "none" before serve() is called
    reqs        \* client -> the request of the client the server is processing or has ended

vars == <<registry, origin, heap, now, written, last, backend, reqs>>

----------------------------------------------------------------------------
(* Bounds of the model *)

MaxTime == 1        \* the clock stops advancing here
MaxStores == 2      \* storage instances created in one run
MaxCount == 2       \* increments are sent while a counter is below this

----------------------------------------------------------------------------
(* Python values.  Every value carries its type; PyEq is Python's ==, under  *)
(* which a bool equals the int of its value and values of other different   *)
(* types are unequal.                                                       *)

None == [t |-> "NoneType"]
Str(s) == [t |-> "str", s |-> s]
Dict(f) == [t |-> "dict", f |-> f]
EmptyDict == Dict(<<>>)
Number(n) == [t |-> "int", n |-> n]
Bool(b) == [t |-> "bool", b |-> b]
List(items) == [t |-> "list", items |-> items]
NotImplemented == [t |-> "NotImplementedType"]

\* the int a bool or an int stands for: True is 1 and False is 0
IsNumeric(v) == v.t \in {"bool", "int"}
NumOf(v) == IF v.t = "bool" THEN (IF v.b THEN 1 ELSE 0) ELSE v.n

\* a == b
RECURSIVE PyEq(_, _)
PyEq(a, b) ==
    CASE IsNumeric(a) /\ IsNumeric(b) -> NumOf(a) = NumOf(b)
      [] a.t = "dict" /\ b.t = "dict" ->
            /\ DOMAIN a.f = DOMAIN b.f
            /\ \A k \in DOMAIN a.f : PyEq(a.f[k], b.f[k])
      [] a.t = "list" /\ b.t = "list" ->
            /\ Len(a.items) = Len(b.items)
            /\ \A i \in 1..Len(a.items) : PyEq(a.items[i], b.items[i])
      [] OTHER -> a = b

IsDict(v) == v.t = "dict"

\* `key in d`
HasField(d, k) == k \in DOMAIN d.f

\* d.get(k, default)
DictGet(d, k, default) == IF HasField(d, k) THEN d.f[k] ELSE default

\* bool(v): None, {}, [], "", 0 and False are falsy
Truthy(v) ==
    CASE v.t = "NoneType" -> FALSE
      [] v.t = "dict" -> DOMAIN v.f # {}
      [] v.t = "list" -> Len(v.items) > 0
      [] v.t = "str" -> v.s # ""
      [] v.t = "int" -> v.n # 0
      [] v.t = "bool" -> v.b
      [] OTHER -> TRUE

----------------------------------------------------------------------------
(* InMemoryStorage.  A storage is self._relations: a function from the      *)
(* relation names created so far to relations; a relation is a dict in      *)
(* insertion order: a sequence of [key, value, meta] with distinct keys.    *)

EmptyStorage == <<>>

EnsureRelation(st, r) == IF r \in DOMAIN st THEN st ELSE (r :> <<>>) @@ st

\* position of key k in the relation, 0 if it has none
RelIndex(rel, k) ==
    IF \E i \in 1..Len(rel) : rel[i].key = k
    THEN CHOOSE i \in 1..Len(rel) : rel[i].key = k /\ \A j \in 1..(i-1) : rel[j].key # k
    ELSE 0

RemoveAt(s, i) == [j \in 1..(Len(s) - 1) |-> IF j < i THEN s[j] ELSE s[j + 1]]

StGet(st, r, k) ==
    LET s1 == EnsureRelation(st, r)
        i == RelIndex(s1[r], k)
    IN  [st |-> s1, ret |-> IF i = 0 THEN None ELSE s1[r][i].value]

\* A wrong put: the entry is added without replacing the one the key has.
StPutAppend(st, r, k, v, t) ==
    LET s1 == EnsureRelation(st, r)
        e == [key |-> k, value |-> v, meta |-> [lastWrittenAt |-> t]]
    IN  [st |-> [s1 EXCEPT ![r] = Append(s1[r], e)], ret |-> None]

\* A wrong put: the entry is written to every relation the storage has.
StPutEverywhere(st, r, k, v, t) ==
    LET s1 == EnsureRelation(st, r)
        e == [key |-> k, value |-> v, meta |-> [lastWrittenAt |-> t]]
        Written(rel) == IF RelIndex(rel, k) = 0 THEN Append(rel, e)
                        ELSE [rel EXCEPT ![RelIndex(rel, k)] = e]
    IN  [st |-> [q \in DOMAIN s1 |-> Written(s1[q])], ret |-> None]

StPut(st, r, k, v, t) ==
    LET s1 == EnsureRelation(st, r)
        e == [key |-> k, value |-> v, meta |-> [lastWrittenAt |-> t]]
        i == RelIndex(s1[r], k)
    IN  [st |-> [s1 EXCEPT ![r] = IF i = 0 THEN Append(s1[r], e)
                                           ELSE [s1[r] EXCEPT ![i] = e]],
         ret |-> None]

\* A wrong delete: the entry is removed but the result is always True.
StDeleteAlwaysTrue(st, r, k) ==
    LET s1 == EnsureRelation(st, r)
        i == RelIndex(s1[r], k)
    IN  [st |-> IF i = 0 THEN s1 ELSE [s1 EXCEPT ![r] = RemoveAt(s1[r], i)],
         ret |-> TRUE]

StDelete(st, r, k) ==
    LET s1 == EnsureRelation(st, r)
        i == RelIndex(s1[r], k)
    IN  IF i # 0
        THEN [st |-> [s1 EXCEPT ![r] = RemoveAt(s1[r], i)], ret |-> TRUE]
        ELSE [st |-> s1, ret |-> FALSE]

\* all(r.get(k) == v for k, v in args.items())
FilterMatches(v, args) == \A k \in DOMAIN args.f : PyEq(DictGet(v, k, None), args.f[k])

\* find.  With a filter and a value to test, args.items() raises
\* AttributeError for a filter that is no dict, and r.get for a value that
\* is no dict.
StFind(st, r, args) ==
    LET s1 == EnsureRelation(st, r)
        results == [i \in 1..Len(s1[r]) |-> s1[r][i].value]
        Keep(v) == FilterMatches(v, args)
    IN  IF ~Truthy(args) \/ results = <<>>
        THEN [st |-> s1, ret |-> results, raised |-> FALSE]
        ELSE IF ~IsDict(args) \/ \E i \in 1..Len(results) : ~IsDict(results[i])
        THEN [st |-> s1, ret |-> <<>>, raised |-> TRUE]
        ELSE [st |-> s1, ret |-> SelectSeq(results, Keep), raised |-> FALSE]

----------------------------------------------------------------------------
(* Inputs of the storage operations *)

Relations == {"users", "posts"}
Keys == {"alice", "bob"}
\* the cells the calls write: two keys of one relation, and one of them again in another
PutCells == {<<"users", "alice">>, <<"users", "bob">>, <<"posts", "alice">>}
Values == { Dict([name |-> Str("Alice"), role |-> Str("admin")]),
            Dict([name |-> Str("Bob"), active |-> Bool(TRUE)]) }
Filters == { None, EmptyDict, List(<<>>),
             Dict([role |-> Str("admin")]),
             Dict([role |-> None]),
             Dict([name |-> Str("Bob")]),
             Dict([active |-> Number(1)]) }

----------------------------------------------------------------------------
(* Direct calls on a storage instance, as the storage tests make them *)

Tick ==
    /\ now < MaxTime
    /\ now' = now + 1
    /\ UNCHANGED <<registry, origin, heap, written, last, backend, reqs>>

Put(s, r, k, v) ==
    /\ heap' = [heap EXCEPT ![s] = StPut(heap[s], r, k, v, now).st]
    /\ written' = written \cup {<<s, r, k>>}
    /\ last' = [op |-> "put", sid |-> s, relation |-> r, key |-> k, value |-> v,
                present |-> (r \in DOMAIN heap[s] /\ RelIndex(heap[s][r], k) # 0),
                old |-> StGet(heap[s], r, k).ret,
                ret |-> StPut(heap[s], r, k, v, now).ret]
    /\ UNCHANGED <<registry, origin, now, backend, reqs>>

Get(s, r, k) ==
    /\ heap' = [heap EXCEPT ![s] = StGet(heap[s], r, k).st]
    /\ last' = [op |-> "get", sid |-> s, relation |-> r, key |-> k,
                ret |-> StGet(heap[s], r, k).ret]
    /\ UNCHANGED <<registry, origin, now, written, backend, reqs>>

Delete(s, r, k) ==
    /\ heap' = [heap EXCEPT ![s] = StDelete(heap[s], r, k).st]
    /\ last' = [op |-> "delete", sid |-> s, relation |-> r, key |-> k,
                present |-> (r \in DOMAIN heap[s] /\ RelIndex(heap[s][r], k) # 0),
                ret |-> StDelete(heap[s], r, k).ret]
    /\ UNCHANGED <<registry, origin, now, written, backend, reqs>>

Find(s, r, args) ==
    /\ heap' = [heap EXCEPT ![s] = StFind(heap[s], r, args).st]
    /\ last' = [op |-> "find", sid |-> s, relation |-> r, args |-> args,
                ret |-> StFind(heap[s], r, args).ret,
                raised |-> StFind(heap[s], r, args).raised]
    /\ UNCHANGED <<registry, origin, now, written, backend, reqs>>

Idle == [op |-> "none"]

InitStorage ==
    /\ registry = <<>>
    /\ origin = <<>>
    /\ heap = <<EmptyStorage>>
    /\ now = 0
    /\ written = {}
    /\ last = Idle
    /\ backend = "none"
    /\ reqs = <<>>

NextStorage ==
    \/ Tick
    \/ \E c \in PutCells, v \in Values : Put(1, c[1], c[2], v)
    \/ \E r \in Relations, k \in Keys : Get(1, r, k)
    \/ \E r \in Relations, k \in Keys : Delete(1, r, k)
    \/ \E r \in Relations, args \in Filters : Find(1, r, args)

SpecStorage == InitStorage /\ [][NextStorage]_vars

----------------------------------------------------------------------------
(* Concept handlers.  A handler class is its name and the methods it        *)
(* declares; a method is sync or async and has a body.  The classes have    *)
(* no fields, so a handler instance is given by its class: [cls].           *)

Method(async, body) == [found |-> TRUE, async |-> async, body |-> body]
NoAttr == [found |-> FALSE]

\* the handler of the SDK's tests
EchoHandler ==
    [name |-> "EchoHandler",
     methods |-> ("echo" :> Method(TRUE, "echo"))
              @@ ("fail" :> Method(TRUE, "fail"))
              @@ ("not_async" :> Method(FALSE, "ok"))]

\* the handler of the ConceptHandler documentation
PasswordHandler ==
    [name |-> "PasswordHandler",
     methods |-> ("set" :> Method(TRUE, "set"))
              @@ ("verify" :> Method(TRUE, "verify"))]

\* a handler that breaks the contract of an action in each way dispatch checks:
\* results that are no dict or have no variant, and a sync method that would
\* touch the storage if it ran
ProbeHandler ==
    [name |-> "ProbeHandler",
     methods |-> ("ret_none" :> Method(TRUE, "ret_none"))
              @@ ("ret_plain" :> Method(TRUE, "ret_plain"))
              @@ ("touch" :> Method(FALSE, "touch"))]

\* a handler whose operations read the counter of a key and write it back
\* incremented: increment puts right after the get, increment_slow awaits
\* asyncio.sleep(0) between the two
CounterHandler ==
    [name |-> "CounterHandler",
     methods |-> ("increment" :> Method(TRUE, "increment"))
              @@ ("increment_slow" :> Method(TRUE, "increment_slow"))]

HandlerClasses == {EchoHandler, PasswordHandler, ProbeHandler, CounterHandler}

ClassOf(name) == CHOOSE c \in HandlerClasses : c.name = name

\* the attributes of object and of the class object that getattr resolves
\* on a handler instance to something other than None (__doc__ and
\* __weakref__ are None); none of them is a coroutine function
ObjectAttrs ==
    {"__class__", "__delattr__", "__dict__", "__dir__", "__eq__", "__format__", "__ge__",
     "__getattribute__", "__getstate__", "__gt__", "__hash__", "__init__",
     "__init_subclass__", "__le__", "__lt__", "__module__", "__ne__", "__new__",
     "__reduce__", "__reduce_ex__", "__repr__", "__setattr__", "__sizeof__", "__str__",
     "__subclasshook__"}

\* what every handler has besides its own methods: the dispatch coroutine of
\* ConceptHandler and the attributes of object.  Called with (input, storage),
\* __subclasshook__ returns NotImplemented; the others raise.
InheritedAttrs ==
    [a \in ObjectAttrs |->
        Method(FALSE, IF a = "__subclasshook__" THEN "subclasshook" ELSE "object_attr")]
    @@ ("handle" :> Method(TRUE, "handle"))

\* getattr(self, action, None): the class's own methods hide the inherited ones
GetAttr(h, action) ==
    LET attrs == ClassOf(h.cls).methods @@ InheritedAttrs
    IN  IF action \in DOMAIN attrs THEN attrs[action] ELSE NoAttr

\* A wrong check: every attribute passes for a coroutine function.
IsCoroutineFunctionAny(attr) == TRUE

\* inspect.iscoroutinefunction(method)
IsCoroutineFunction(attr) == attr.async

HashPassword(pw) == Str("hash(" \o pw.s \o ")")
CheckPassword(pw, hash) == HashPassword(pw) = hash

Returned(v, st, access) == [raised |-> FALSE, value |-> v, st |-> st, access |-> access]
Raised(exc, st, access) == [raised |-> TRUE, exc |-> exc, value |-> None, st |-> st, access |-> access]
Access(op, r, k) == [op |-> op, relation |-> r, key |-> k]

\* PasswordHandler.verify once storage.get has answered g:
\* `if cred and check_password(input["password"], cred["hash"])`
VerifyWith(input, g) ==
    LET acc == <<Access("get", "credentials", input.f["userId"].s)>>
    IN  IF ~Truthy(g.ret)
        THEN Returned(Dict([variant |-> Str("invalid")]), g.st, acc)
        ELSE IF ~HasField(input, "password")
        THEN Raised("KeyError", g.st, acc)
        ELSE IF ~IsDict(g.ret)
        THEN Raised("TypeError", g.st, acc)
        ELSE IF ~HasField(g.ret, "hash")
        THEN Raised("KeyError", g.st, acc)
        ELSE IF CheckPassword(input.f["password"], g.ret.f["hash"])
        THEN Returned(Dict([variant |-> Str("ok"), userId |-> input.f["userId"]]), g.st, acc)
        ELSE Returned(Dict([variant |-> Str("invalid")]), g.st, acc)

\* the awaits of a body between its storage.get and its storage.put
AwaitsBeforePut(body) ==
    CASE body = "increment" -> {"storage.get"}
      [] body = "increment_slow" -> {"storage.get", "sleep"}
      [] OTHER -> {}

\* A wrong await: every await gives control to the event loop, the await of
\* a storage call too.
YieldsAlways(point) == TRUE

\* Whether an await gives control to the event loop.  InMemoryStorage.get
\* and put are coroutines with no await inside: awaiting them runs them to
\* their end at once.  asyncio.sleep(0) yields once.
Yields(point) == point = "sleep"

\* the operation is suspended between its get and its put
Suspends(attr) ==
    attr.found /\ attr.async /\ \E point \in AwaitsBeforePut(attr.body) : Yields(point)

\* an operation of CounterHandler up to its put: the counter is read
ReadCounter(input, st) ==
    IF ~HasField(input, "key")
    THEN Raised("KeyError", st, <<>>)
    ELSE Returned(StGet(st, "counter", input.f["key"].s).ret,
                  StGet(st, "counter", input.f["key"].s).st,
                  <<Access("get", "counter", input.f["key"].s)>>)

CounterOf(cur) == IF Truthy(cur) THEN cur.f["n"].n ELSE 0

\* the rest of the operation: cur is what storage.get has answered
WriteCounter(input, cur, st, t) ==
    Returned(Dict([variant |-> Str("ok"), n |-> Number(CounterOf(cur) + 1)]),
             StPut(st, "counter", input.f["key"].s,
                   Dict([n |-> Number(CounterOf(cur) + 1)]), t).st,
             <<Access("put", "counter", input.f["key"].s)>>)

\* the put on the storage the get has left, run with no other task between
ReadThenWrite(input, g, t) ==
    IF g.raised THEN g
    ELSE Returned(WriteCounter(input, g.value, g.st, t).value,
                  WriteCounter(input, g.value, g.st, t).st,
                  g.access \o WriteCounter(input, g.value, g.st, t).access)

\* The body of a method run with (input, storage) at clock reading t: what it
\* returns or raises, the storage it leaves and the storage calls it made.
RunBody(body, input, st, t) ==
    CASE body = "echo" ->
            Returned(Dict([variant |-> Str("ok"),
                           message |-> DictGet(input, "message", Str(""))]), st, <<>>)
      [] body = "fail" ->
            Returned(Dict([variant |-> Str("error"),
                           message |-> Str("intentional failure")]), st, <<>>)
      [] body = "ok" ->
            Returned(Dict([variant |-> Str("ok")]), st, <<>>)
      [] body = "set" ->
            IF ~HasField(input, "password") \/ ~HasField(input, "userId")
            THEN Raised("KeyError", st, <<>>)
            ELSE LET k == input.f["userId"].s
                     p == StPut(st, "credentials", k,
                                Dict([hash |-> HashPassword(input.f["password"])]), t)
                 IN  Returned(Dict([variant |-> Str("ok"), userId |-> input.f["userId"]]),
                              p.st, <<Access("put", "credentials", k)>>)
      [] body = "verify" ->
            IF ~HasField(input, "userId")
            THEN Raised("KeyError", st, <<>>)
            ELSE VerifyWith(input, StGet(st, "credentials", input.f["userId"].s))
      [] body = "ret_none" ->
            Returned(None, st, <<>>)
      [] body = "ret_plain" ->
            Returned(Dict([message |-> Str("done")]), st, <<>>)
      [] body = "touch" ->
            Returned(Dict([variant |-> Str("ok")]), EnsureRelation(st, "audit"),
                     <<Access("_ensure_relation", "audit", "")>>)
      [] body \in {"increment", "increment_slow"} ->
            ReadThenWrite(input, ReadCounter(input, st), t)
      [] body = "handle" ->
            \* handle(input, storage): the parameter `storage` is missing
            Raised("TypeError", st, <<>>)
      [] body = "subclasshook" ->
            \* object.__subclasshook__ takes any arguments
            Returned(NotImplemented, st, <<>>)
      [] OTHER ->
            \* another attribute of object called with (input, storage): it
            \* is not callable or does not take these arguments
            Raised("TypeError", st, <<>>)

\* `await method(input, storage)`: the call runs the body of a sync method at
\* once and awaiting its result, which is no awaitable, raises.
Await(attr, r) ==
    IF attr.async \/ r.raised THEN r ELSE Raised("TypeError", r.st, r.access)

CallAndAwait(attr, input, st, t) == Await(attr, RunBody(attr.body, input, st, t))

ErrorResult(message) == Dict([variant |-> Str("error"), message |-> Str(message)])

\* A wrong validation: a dict passes whether or not it has a variant.
ValidateDictOnly(action, result) ==
    IF ~IsDict(result)
    THEN ErrorResult("Action '" \o action \o "' must return dict with 'variant' key")
    ELSE result

\* A wrong validation: an error variant of the operation is replaced by the
\* generic message.
ValidateRewriteError(action, result) ==
    IF ~IsDict(result) \/ ~HasField(result, "variant") \/ result.f["variant"] = Str("error")
    THEN ErrorResult("Action '" \o action \o "' must return dict with 'variant' key")
    ELSE result

\* the check of the operation's result and what handle returns after it
Validate(action, result) ==
    IF ~IsDict(result) \/ ~HasField(result, "variant")
    THEN ErrorResult("Action '" \o action \o "' must return dict with 'variant' key")
    ELSE result

\* the operations an outcome of handle has run, and what the operation returned
Ran(calls, raw) == [calls |-> calls, raw |-> raw]

\* handle after `await method(input, storage)` has ended with r
AfterCall(h, action, input, r) ==
    LET ran == Ran(<<[handler |-> h, method |-> action, input |-> input]>>, r.value)
    IN  IF r.raised
        THEN r @@ ran
        ELSE Returned(Validate(action, r.value), r.st, r.access) @@ ran

\* handle with the attribute the action name resolves to
Dispatch(h, method, action, input, st, t) ==
    IF ~method.found
    THEN Returned(ErrorResult("Unknown action: " \o action), st, <<>>) @@ Ran(<<>>, None)
    ELSE IF ~IsCoroutineFunction(method)
    THEN Returned(ErrorResult("Action '" \o action \o "' must be async"), st, <<>>)
             @@ Ran(<<>>, None)
    ELSE AfterCall(h, action, input, CallAndAwait(method, input, st, t))

\* ConceptHandler.handle.  Besides what it returns or raises and the storage
\* it leaves, the outcome records the operations it ran (calls), what the
\* operation returned (raw) and the storage calls made (access).
Handle(h, action, input, st, t) == Dispatch(h, GetAttr(h, action), action, input, st, t)

----------------------------------------------------------------------------
(* Inputs of dispatch *)

ActionNames == {"", "nonexistent", "handle", "__init__", "__class__", "__doc__",
                "__subclasshook__",
                "echo", "fail", "not_async", "set", "verify",
                "ret_none", "ret_plain", "touch"}

Inputs == { EmptyDict,
            Dict([message |-> Str("hi")]),
            Dict([userId |-> Str("u1"), password |-> Str("p1")]),
            Dict([userId |-> Str("u1"), password |-> Str("p2")]) }

\* the cells the storage calls of an outcome have put
PutsOf(s, access) ==
    {<<s, access[i].relation, access[i].key>> : i \in {j \in 1..Len(access) : access[j].op = "put"}}

----------------------------------------------------------------------------
(* Direct dispatch, as the handler tests do it: a new handler instance and   *)
(* one storage                                                              *)

HandleCall(cls, action, input) ==
    \E r \in {Handle([cls |-> cls.name], action, input, heap[1], now)} :
        /\ heap' = [heap EXCEPT ![1] = r.st]
        /\ written' = written \cup PutsOf(1, r.access)
        /\ last' = [op |-> "handle", cls |-> cls.name, action |-> action, input |-> input,
                    raised |-> r.raised, value |-> r.value, raw |-> r.raw,
                    calls |-> r.calls, access |-> r.access,
                    changed |-> (r.st # heap[1])]
        /\ UNCHANGED <<registry, origin, now, backend, reqs>>

NextHandle ==
    \E cls \in HandlerClasses, action \in ActionNames, input \in Inputs :
        HandleCall(cls, action, input)

SpecHandle == InitStorage /\ [][NextHandle]_vars

----------------------------------------------------------------------------
(* Registry and transport *)

\* A wrong lookup: an unknown concept gets the entry of some registered one.
LookupOrAny(reg, uri) ==
    IF uri \in DOMAIN reg THEN reg[uri]
    ELSE IF DOMAIN reg # {} THEN reg[CHOOSE u \in DOMAIN reg : TRUE]
    ELSE None

\* A wrong lookup: a known concept gets the entry of another one when there
\* is one.
LookupOther(reg, uri) ==
    IF uri \in DOMAIN reg
    THEN IF DOMAIN reg # {uri} THEN reg[CHOOSE u \in DOMAIN reg : u # uri] ELSE reg[uri]
    ELSE None

\* _REGISTRY.get(concept_uri)
Lookup(reg, uri) == IF uri \in DOMAIN reg THEN reg[uri] ELSE None

\* time.strftime("%Y-%m-%dT%H:%M:%SZ", time.gmtime()) within the first minute
FormatTime(t) == "1970-01-01T00:00:" \o (IF t < 10 THEN "0" ELSE "") \o ToString(t) \o "Z"

\* A wrong completion: the flow is set to the invocation's id.
CompletionIdAsFlow(id, concept, action, input, variant, output, flow, t) ==
    Dict([id |-> id, concept |-> concept, action |-> action, input |-> input,
          variant |-> variant, output |-> output, flow |-> id,
          timestamp |-> Str(FormatTime(t))])

Completion(id, concept, action, input, variant, output, flow, t) ==
    Dict([id |-> id, concept |-> concept, action |-> action, input |-> input,
          variant |-> variant, output |-> output, flow |-> flow,
          timestamp |-> Str(FormatTime(t))])

\* the storage index sid added to every record of a sequence
WithStorage(seq, sid) == [i \in 1..Len(seq) |-> seq[i] @@ [storage |-> sid]]

\* _handle_invoke after handler.handle has ended with r
InvokeResult(id, concept, action, input, flow, entry, hp, t, r) ==
    [raised |-> r.raised, handled |-> TRUE,
     response |-> IF r.raised THEN None
                  ELSE Completion(id, concept, action, input,
                                  DictGet(r.value, "variant", Str("ok")), r.value, flow, t),
     heap |-> [hp EXCEPT ![entry.storage] = r.st],
     calls |-> WithStorage(r.calls, entry.storage),
     access |-> WithStorage(r.access, entry.storage)]

\* _handle_invoke with the fields of the body and the registry entry
InvokeEntry(id, concept, action, input, flow, entry, hp, t) ==
    IF entry = None
    THEN [raised |-> FALSE, handled |-> FALSE,
          response |-> Completion(id, concept, action, input, Str("error"),
                           ErrorResult("Unknown concept: " \o concept.s), flow, t),
          heap |-> hp, calls |-> <<>>, access |-> <<>>]
    ELSE InvokeResult(id, concept, action, input, flow, entry, hp, t,
                      Handle(entry.handler, action.s, input, hp[entry.storage], t))

\* _handle_invoke(body) with registry reg, storages hp and clock reading t;
\* uflow and uid are the uuid4 draws.  The outcome is the completion or the
\* exception raised, the storages it leaves, and the operations and storage
\* calls it made.
HandleInvoke(body, reg, hp, t, uflow, uid) ==
    InvokeEntry(DictGet(body, "id", Str(uid)),
                DictGet(body, "concept", Str("")),
                DictGet(body, "action", Str("")),
                DictGet(body, "input", EmptyDict),
                DictGet(body, "flow", Str(uflow)),
                Lookup(reg, DictGet(body, "concept", Str("")).s), hp, t)

\* _handle_query after storage.find has answered f
QueryResult(relation, entry, hp, f) ==
    [raised |-> f.raised, response |-> f.ret,
     heap |-> [hp EXCEPT ![entry.storage] = f.st],
     access |-> <<Access("find", relation.s, "") @@ [storage |-> entry.storage]>>]

\* A wrong query: the filter of the body is dropped.
QueryEntryNoArgs(relation, args, entry, hp) ==
    IF entry = None
    THEN [raised |-> FALSE, response |-> <<>>, heap |-> hp, access |-> <<>>]
    ELSE QueryResult(relation, entry, hp, StFind(hp[entry.storage], relation.s, None))

\* _handle_query with the fields of the body and the registry entry
QueryEntry(relation, args, entry, hp) ==
    IF entry = None
    THEN [raised |-> FALSE, response |-> <<>>, heap |-> hp, access |-> <<>>]
    ELSE QueryResult(relation, entry, hp, StFind(hp[entry.storage], relation.s, args))

\* _handle_query(body)
HandleQuery(body, reg, hp) ==
    QueryEntry(DictGet(body, "relation", Str("")),
               DictGet(body, "args", None),
               Lookup(reg, DictGet(body, "concept", Str("")).s), hp)

----------------------------------------------------------------------------
(* Inputs of the transport *)

ConceptIds == {"urn:test/Echo", "urn:app/Password"}
UUIDs == {"uuid-1", "uuid-2"}

FullBody(c, a, i) ==
    Dict([id |-> Str("inv-1"), concept |-> Str(c), action |-> Str(a), input |-> i,
          flow |-> Str("flow-1")])

\* the classes each concept is registered with
Registrations ==
    { <<"urn:test/Echo", EchoHandler>>, <<"urn:test/Echo", ProbeHandler>>,
      <<"urn:app/Password", PasswordHandler>> }

Message == Dict([message |-> Str("hi")])
Credentials == Dict([userId |-> Str("u1"), password |-> Str("p1")])

\* bodies that leave fields out
PartialBodies ==
    { EmptyDict,
      Dict([concept |-> Str("urn:test/Echo"), action |-> Str("echo"),
            flow |-> Str("flow-1")]),
      Dict([concept |-> Str("urn:test/Echo"), action |-> Str("echo"),
            input |-> Message, id |-> Str("inv-1")]) }

InvokeBodies ==
    {FullBody("urn:test/Echo", a, Message) :
         a \in {"echo", "fail", "not_async", "nonexistent", "handle", "ret_plain",
                "ret_none"}}
    \cup {FullBody("urn:test/Echo", "echo", EmptyDict)}
    \cup {FullBody("urn:app/Password", a, Credentials) :
             a \in {"set", "verify", "handle", "nonexistent"}}
    \cup {FullBody("urn:app/Password", "set", Message)}
    \cup PartialBodies

QueryBodies ==
    {Dict([concept |-> Str("urn:app/Password"), relation |-> Str("credentials"), args |-> a]) :
        a \in {Dict([hash |-> HashPassword(Str("p1"))]),
              Dict([hash |-> HashPassword(Str("p2"))]), Dict([userId |-> None]),
              List(<<>>), List(<<Number(1)>>)}}
    \cup {Dict([concept |-> Str(c), relation |-> Str("credentials")]) : c \in ConceptIds}
    \cup {EmptyDict}

\* the uuid4 draws that can show in the completion: one stands for all when
\* the body has the field and the draw is dropped
Draws(body, field) == IF HasField(body, field) THEN {"uuid-1"} ELSE UUIDs

----------------------------------------------------------------------------
(* The registry and the request processing *)

\* A wrong default: a registration without storage binds the first storage
\* there is instead of a new one.
StoreShared(supplied, hp) == IF supplied # 0 THEN supplied ELSE 1

\* store = storage if storage is not None else InMemoryStorage(): the index
\* of the storage bound; Len(hp) + 1 is the index of a new storage
StoreFor(supplied, hp) == IF supplied # 0 THEN supplied ELSE Len(hp) + 1

\* A wrong binding: an identifier that has a binding keeps it.
BindKeepFirst(reg, uri, entry) == reg @@ (uri :> entry)

\* _REGISTRY[uri] = (instance, store)
Bind(reg, uri, entry) == (uri :> entry) @@ reg

\* @register(uri, storage)(cls).  supplied = 0 stands for storage=None;
\* otherwise the caller supplies the storage of that index, which is one that
\* exists or, for index Len(heap) + 1, one the caller has just created with
\* InMemoryStorage().
Register(uri, cls, supplied) ==
    /\ supplied \in {0, Len(heap) + 1} => Len(heap) < MaxStores
    /\ LET instance == [cls |-> cls.name]
           store == StoreFor(supplied, heap)
       IN  /\ heap' = IF store <= Len(heap) THEN heap ELSE Append(heap, EmptyStorage)
           /\ registry' = Bind(registry, uri, [handler |-> instance, storage |-> store])
           /\ origin' = (uri :> (supplied # 0)) @@ origin
           /\ last' = [op |-> "register", uri |-> uri, supplied |-> supplied,
                       handler |-> instance, storage |-> store,
                       replaced |-> Lookup(registry, uri)]
    /\ UNCHANGED <<now, written, backend, reqs>>

\* _REGISTRY.clear()
Clear ==
    /\ registry' = <<>>
    /\ origin' = <<>>
    /\ last' = [op |-> "clear"]
    /\ UNCHANGED <<heap, now, written, backend, reqs>>

\* POST /invoke
Invoke(body) ==
    \E uflow \in Draws(body, "flow"), uid \in Draws(body, "id") :
        \E r \in {HandleInvoke(body, registry, heap, now, uflow, uid)} :
            /\ heap' = r.heap
            /\ written' = written \cup
                   UNION {PutsOf(r.access[i].storage, <<r.access[i]>>) : i \in 1..Len(r.access)}
            /\ last' = [op |-> "invoke", body |-> body, raised |-> r.raised,
                        handled |-> r.handled, response |-> r.response,
                        calls |-> r.calls, access |-> r.access,
                        changedAt |-> {i \in 1..Len(heap) : r.heap[i] # heap[i]}]
            /\ UNCHANGED <<registry, origin, now, backend, reqs>>

\* POST /query
Query(body) ==
    \E r \in {HandleQuery(body, registry, heap)} :
        /\ heap' = r.heap
        /\ last' = [op |-> "query", body |-> body, raised |-> r.raised,
                    response |-> r.response, calls |-> <<>>, access |-> r.access,
                    changedAt |-> {i \in 1..Len(heap) : r.heap[i] # heap[i]}]
        /\ UNCHANGED <<registry, origin, now, written, backend, reqs>>

InitInvoke ==
    /\ registry = <<>>
    /\ origin = <<>>
    /\ heap = <<>>
    /\ now = 0
    /\ written = {}
    /\ last = Idle
    /\ backend = "none"
    /\ reqs = <<>>

NextInvoke ==
    \/ \E reg \in Registrations, supplied \in 0..(Len(heap) + 1) :
           Register(reg[1], reg[2], supplied)
    \/ Clear
    \/ \E body \in InvokeBodies : Invoke(body)
    \/ \E body \in QueryBodies : Query(body)

SpecInvoke == InitInvoke /\ [][NextInvoke]_vars

----------------------------------------------------------------------------
(* JSON.  A request or response body is: no bytes at all, a text that is   *)
(* no JSON document, bytes that are no text in any encoding json.loads      *)
(* detects, or the text of a JSON document, given by the document's tree.   *)

NoBytes == [kind |-> "empty"]
Garbage == [kind |-> "garbage"]
Undecodable == [kind |-> "undecodable"]
JsonText(doc) == [kind |-> "json", doc |-> doc]

JNull == [j |-> "null"]
JString(s) == [j |-> "string", s |-> s]
JBool(b) == [j |-> "bool", b |-> b]
JNumber(n) == [j |-> "number", n |-> n]
JArray(items) == [j |-> "array", items |-> items]
JObject(members) == [j |-> "object", members |-> members]

\* the JSON document json.dumps writes for a value
RECURSIVE ToJson(_)
ToJson(v) ==
    CASE v.t = "NoneType" -> JNull
      [] v.t = "str" -> JString(v.s)
      [] v.t = "bool" -> JBool(v.b)
      [] v.t = "int" -> JNumber(v.n)
      [] v.t = "list" -> JArray([i \in DOMAIN v.items |-> ToJson(v.items[i])])
      [] v.t = "dict" -> JObject([k \in DOMAIN v.f |-> ToJson(v.f[k])])

\* the value json.loads builds from a JSON document
RECURSIVE FromJson(_)
FromJson(d) ==
    CASE d.j = "null" -> None
      [] d.j = "string" -> Str(d.s)
      [] d.j = "bool" -> Bool(d.b)
      [] d.j = "number" -> Number(d.n)
      [] d.j = "array" -> List([i \in DOMAIN d.items |-> FromJson(d.items[i])])
      [] d.j = "object" -> Dict([k \in DOMAIN d.members |-> FromJson(d.members[k])])

\* json.dumps(v).encode()
JsonDumps(v) == JsonText(ToJson(v))

\* json.loads(text): the document of a JSON text; UnicodeDecodeError for
\* bytes that are no text in UTF-8, UTF-16 or UTF-32; JSONDecodeError for
\* any other text, the empty one included
JsonLoads(text) ==
    CASE text.kind = "json" -> [raised |-> FALSE, value |-> FromJson(text.doc)]
      [] text.kind = "undecodable" ->
            [raised |-> TRUE, exc |-> "UnicodeDecodeError", value |-> None]
      [] OTHER -> [raised |-> TRUE, exc |-> "JSONDecodeError", value |-> None]

----------------------------------------------------------------------------
(* The two HTTP servers: serve() on aiohttp and _serve_stdlib() on          *)
(* http.server.  A request in progress is a record of the request, the      *)
(* stage it has reached, what the stages have produced, and the events of   *)
(* its processing in order: the stages, "op" for every handler operation    *)
(* called and "access" for every storage call of the operation.  An        *)
(* operation that awaits the event loop between its storage calls is at     *)
(* stage "suspended" from there until it is resumed.                        *)

Backends == {"aiohttp", "stdlib"}

NoRequest == [stage |-> "none"]
NoResponse == [sent |-> FALSE, status |-> 0, body |-> NoBytes]
Response(status, body) == [sent |-> TRUE, status |-> status, body |-> body]

\* the body of aiohttp's error responses and the page send_error writes
TextBody(s) == [kind |-> "text", text |-> s]
HtmlError(code) == [kind |-> "html", code |-> code]

\* a request: the request target is the path and, after "?", the query
HttpRequestQ(method, path, query, text) ==
    [method |-> method, path |-> path, query |-> query, text |-> text]
HttpRequest(method, path, text) == HttpRequestQ(method, path, "", text)

\* self.path of BaseHTTPRequestHandler: the whole request target
Target(req) == IF req.query = "" THEN req.path ELSE req.path \o "?" \o req.query

NewRequest(req) ==
    [stage |-> "received", request |-> req, body |-> None, call |-> None, result |-> None,
     frame |-> None, payload |-> NoBytes, response |-> NoResponse,
     trace |-> <<"received">>]

Done(q) == q.stage \in {"sent", "closed"}

At(q, stage) == [q EXCEPT !.stage = stage, !.trace = Append(@, stage)]

\* the response is written to the connection; the response to HEAD has no
\* body
Respond(q, status, body) ==
    [At(q, "sent") EXCEPT !.response =
         Response(status, IF q.request.method = "HEAD" THEN NoBytes ELSE body)]

\* An exception leaves the request's handler.  aiohttp answers 500;
\* socketserver reports the error and closes the connection, and nothing is
\* written to it.
Fault(b, q) ==
    IF b = "aiohttp" THEN Respond(q, 500, TextBody("500 Internal Server Error"))
    ELSE At(q, "closed")

\* the routes added to the aiohttp application, matched against the path
\* without the query: the handler of the request, or the status of the
\* router's error when it has none.  add_get adds the HEAD route too.
AioRoute(method, path) ==
    CASE path = "/invoke" -> IF method = "POST" THEN [handler |-> "invoke", status |-> 0]
                             ELSE [handler |-> "", status |-> 405]
      [] path = "/query" -> IF method = "POST" THEN [handler |-> "query", status |-> 0]
                            ELSE [handler |-> "", status |-> 405]
      [] path = "/health" -> IF method \in {"GET", "HEAD"}
                             THEN [handler |-> "health", status |-> 0]
                             ELSE [handler |-> "", status |-> 405]
      [] OTHER -> [handler |-> "", status |-> 404]

\* the do_ method BaseHTTPRequestHandler finds for the request, and what
\* do_GET does with self.path
StdRoute(method, path) ==
    CASE method = "POST" -> [handler |-> "do_POST", status |-> 0]
      [] method = "GET" -> IF path = "/health" THEN [handler |-> "health", status |-> 0]
                           ELSE [handler |-> "", status |-> 404]
      [] OTHER -> [handler |-> "", status |-> 501]

RouteOf(b, req) ==
    IF b = "aiohttp" THEN AioRoute(req.method, req.path) ELSE StdRoute(req.method, Target(req))

\* the request has no handler: the error response is sent
RejectReq(b, q) ==
    Respond(q, RouteOf(b, q.request).status,
            IF b = "aiohttp"
            THEN TextBody(IF RouteOf(b, q.request).status = 404 THEN "404: Not Found"
                          ELSE "405: Method Not Allowed")
            ELSE HtmlError(RouteOf(b, q.request).status))

\* {"healthy": True, "latencyMs": 0}
HealthStatus == Dict([healthy |-> Bool(TRUE), latencyMs |-> Number(0)])

\* health_handler and the "/health" branch of do_GET, up to the encoding
HealthReq(q) == [At(q, "encoded") EXCEPT !.payload = JsonDumps(HealthStatus)]

\* await request.json() in aiohttp; in do_POST, json.loads of the bytes read
\* when Content-Length is positive and {} otherwise
DecodeBody(b, text) ==
    IF b = "stdlib" /\ text = NoBytes
    THEN [raised |-> FALSE, value |-> EmptyDict]
    ELSE JsonLoads(text)

AfterDecode(b, q, d) ==
    IF d.raised THEN Fault(b, q) ELSE [At(q, "decoded") EXCEPT !.body = d.value]

DecodeReq(b, q) == AfterDecode(b, q, DecodeBody(b, q.request.text))

\* the fields _handle_invoke reads from the body, and the registry entry
InvokeCall(body, reg, uflow, uid) ==
    [id |-> DictGet(body, "id", Str(uid)),
     concept |-> DictGet(body, "concept", Str("")),
     action |-> DictGet(body, "action", Str("")),
     input |-> DictGet(body, "input", EmptyDict),
     flow |-> DictGet(body, "flow", Str(uflow)),
     entry |-> Lookup(reg, DictGet(body, "concept", Str("")).s)]

\* the fields _handle_query reads from the body, and the registry entry
QueryCall(body, reg) ==
    [relation |-> DictGet(body, "relation", Str("")),
     args |-> DictGet(body, "args", None),
     entry |-> Lookup(reg, DictGet(body, "concept", Str("")).s)]

\* The decoded request is routed: do_POST answers 404 for a path that is
\* neither "/invoke" nor "/query"; body.get raises AttributeError for a body
\* that is no dict; otherwise the concept is looked up in the registry.
RouteReq(b, q, reg, uflow, uid) ==
    CASE b = "stdlib" /\ Target(q.request) \notin {"/invoke", "/query"} ->
            Respond(q, 404, HtmlError(404))
      [] ~IsDict(q.body) -> Fault(b, q)
      [] q.request.path = "/invoke" ->
            [At(q, "routed") EXCEPT !.call = InvokeCall(q.body, reg, uflow, uid)]
      [] OTHER -> [At(q, "routed") EXCEPT !.call = QueryCall(q.body, reg)]

\* the events of the operations and the storage calls of a request
WithEvents(q, calls, access) ==
    [q EXCEPT !.trace = @ \o [i \in 1..Len(calls) |-> "op"]
                          \o [i \in 1..Len(access) |-> "access"]]

\* _handle_invoke has ended with r
AfterInvoke(b, q, r) ==
    [q |-> IF r.raised THEN Fault(b, WithEvents(q, r.calls, r.access))
           ELSE [At(WithEvents(q, r.calls, r.access), "handled") EXCEPT !.result = r.response],
     heap |-> r.heap, access |-> r.access]

\* _handle_query has ended with r
AfterQuery(b, q, r) ==
    [q |-> IF r.raised THEN Fault(b, WithEvents(q, <<>>, r.access))
           ELSE [At(WithEvents(q, <<>>, r.access), "handled") EXCEPT !.result = List(r.response)],
     heap |-> r.heap, access |-> r.access]

\* the routed request invokes an operation that is suspended before its put
SuspendingOp(q) ==
    /\ q.request.path = "/invoke"
    /\ q.call.entry # None
    /\ Suspends(GetAttr(q.call.entry.handler, q.call.action.s))

\* the operation has run up to its await with outcome g: it has raised, or it
\* is suspended with what it has read in its frame
AfterRead(b, q, hp, g) ==
    [q |-> IF g.raised
           THEN Fault(b, WithEvents(q, <<q.call.action>>, g.access))
           ELSE [At(WithEvents(q, <<q.call.action>>, g.access), "suspended")
                     EXCEPT !.frame = g.value],
     heap |-> [hp EXCEPT ![q.call.entry.storage] = g.st],
     access |-> WithStorage(g.access, q.call.entry.storage)]

SuspendReq(b, q, hp) == AfterRead(b, q, hp, ReadCounter(q.call.input, hp[q.call.entry.storage]))

\* the operation is resumed on the storages of now and ends; handle and
\* _handle_invoke go on to their return
ResumeReq(b, q, hp, t) ==
    AfterInvoke(b, q,
        [InvokeResult(q.call.id, q.call.concept, q.call.action, q.call.input, q.call.flow,
                      q.call.entry, hp, t,
                      AfterCall(q.call.entry.handler, q.call.action.s, q.call.input,
                                WriteCounter(q.call.input, q.frame,
                                             hp[q.call.entry.storage], t)))
            EXCEPT !.calls = <<>>])

\* the routed request is handled on the storages hp at time t
HandleReq(b, q, hp, t) ==
    IF SuspendingOp(q) THEN SuspendReq(b, q, hp)
    ELSE IF q.request.path = "/invoke"
    THEN AfterInvoke(b, q, InvokeEntry(q.call.id, q.call.concept, q.call.action, q.call.input,
                                       q.call.flow, q.call.entry, hp, t))
    ELSE AfterQuery(b, q, QueryEntry(q.call.relation, q.call.args, q.call.entry, hp))

\* web.json_response(result) and json.dumps(result).encode()
EncodeReq(q) == [At(q, "encoded") EXCEPT !.payload = JsonDumps(q.result)]

\* the 200 response with the encoded result
SendReq(q) == Respond(q, 200, q.payload)

Progress(q, hp) == [q |-> q, heap |-> hp, access |-> <<>>]

\* the next stage of request q on backend b
StepReq(b, q, reg, hp, t, uflow, uid) ==
    CASE q.stage = "received" ->
            Progress(IF RouteOf(b, q.request).status # 0 THEN RejectReq(b, q)
                     ELSE IF RouteOf(b, q.request).handler = "health" THEN HealthReq(q)
                     ELSE DecodeReq(b, q), hp)
      [] q.stage = "decoded" -> Progress(RouteReq(b, q, reg, uflow, uid), hp)
      [] q.stage = "routed" -> HandleReq(b, q, hp, t)
      [] q.stage = "suspended" -> ResumeReq(b, q, hp, t)
      [] q.stage = "handled" -> Progress(EncodeReq(q), hp)
      [] q.stage = "encoded" -> Progress(SendReq(q), hp)

RECURSIVE RunReq(_, _, _, _, _, _)
RunReq(b, p, reg, t, uflow, uid) ==
    IF Done(p.q) THEN p
    ELSE RunReq(b, StepReq(b, p.q, reg, p.heap, t, uflow, uid), reg, t, uflow, uid)

\* the whole processing of request req by backend b with no other request
\* in progress: the ended request and the storages it leaves
Exchange(b, req, reg, hp, t, uflow, uid) ==
    RunReq(b, Progress(NewRequest(req), hp), reg, t, uflow, uid)

----------------------------------------------------------------------------
(* Inputs of the servers *)

Clients == {"c1", "c2"}
Paths == {"/invoke", "/query", "/health", "/other"}

\* the documents of the request bodies
InvokeDocs ==
    { ToJson(FullBody("urn:test/Echo", a, Message)) :
          a \in {"echo", "fail", "not_async", "nonexistent", "handle", "ret_plain"} }
    \cup { ToJson(FullBody("urn:app/Password", "set", Credentials)),
           ToJson(FullBody("urn:app/Password", "set", Message)),
           ToJson(FullBody("urn:none", "echo", Message)),
           ToJson(EmptyDict),
           JArray(<<JNumber(1)>>) }

QueryDocs ==
    { ToJson(Dict([concept |-> Str("urn:app/Password"), relation |-> Str("credentials")])),
      ToJson(Dict([concept |-> Str("urn:app/Password"), relation |-> Str("credentials"),
                   args |-> Dict([hash |-> HashPassword(Str("p2"))])])),
      ToJson(Dict([concept |-> Str("urn:app/Password"), relation |-> Str("credentials"),
                   args |-> List(<<>>)])),
      ToJson(Dict([concept |-> Str("urn:app/Password"), relation |-> Str("credentials"),
                   args |-> List(<<Number(1)>>)])),
      JNull }

ServerRequests ==
    {HttpRequest("POST", "/invoke", JsonText(d)) : d \in InvokeDocs}
    \cup {HttpRequest("POST", "/query", JsonText(d)) : d \in QueryDocs}
    \cup {HttpRequest("POST", p, t) : p \in {"/invoke", "/query", "/other"}, t \in {NoBytes, Garbage}}
    \cup {HttpRequest("POST", "/other", JsonText(ToJson(EmptyDict))),
          HttpRequest("POST", "/invoke", Undecodable)}
    \cup {HttpRequest("GET", p, NoBytes) : p \in Paths}
    \cup {HttpRequest("HEAD", "/health", NoBytes),
          HttpRequestQ("GET", "/health", "x=1", NoBytes)}
    \cup {HttpRequest("PUT", "/invoke", JsonText(ToJson(EmptyDict)))}

\* the uuid4 draws that can show in the completion of a decoded request
DrawsFor(q, field) ==
    IF q.request.path = "/invoke" /\ IsDict(q.body) THEN Draws(q.body, field) ELSE {"uuid-1"}

----------------------------------------------------------------------------
(* The servers at work *)

\* the clients whose request is in progress
InProgress(rq) == {d \in DOMAIN rq : rq[d].stage # "none" /\ ~Done(rq[d])}

\* A wrong fallback: it takes a request while another is in progress, as a
\* ThreadingHTTPServer does.
CanAcceptThreaded(b, rq) == TRUE

\* HTTPServer.serve_forever handles a request to its end before it accepts
\* the next connection; the aiohttp event loop accepts at any time
CanAccept(b, rq) == b = "stdlib" => InProgress(rq) = {}

\* the request has ended with an exception that left its handler
Faulted(q) == q.stage = "closed" \/ (q.stage = "sent" /\ q.response.status = 500)

\* A wrong server: an exception that leaves a request's handler ends the
\* process.
ServerAfterCrash(b, q) == IF Faulted(q) THEN "down" ELSE b

\* The server after a step that has left a request at q.  An exception that
\* leaves the request's handler is answered by aiohttp, and is reported by
\* socketserver, which closes the connection; the server runs on.
ServerAfter(b, q) == b

\* the server starts to process a request of client c
Receive(c, req) ==
    /\ backend \in Backends
    /\ reqs[c].stage = "none" \/ Done(reqs[c])
    /\ CanAccept(backend, reqs)
    /\ reqs' = [reqs EXCEPT ![c] = NewRequest(req)]
    /\ UNCHANGED <<registry, origin, heap, now, written, last, backend>>

\* the request has no handler: error response
Reject(c) ==
    /\ reqs[c].stage = "received"
    /\ RouteOf(backend, reqs[c].request).status # 0
    /\ reqs' = [reqs EXCEPT ![c] = RejectReq(backend, reqs[c])]
    /\ UNCHANGED <<registry, origin, heap, now, written, last, backend>>

\* GET /health
Health(c) ==
    /\ reqs[c].stage = "received"
    /\ RouteOf(backend, reqs[c].request).handler = "health"
    /\ reqs' = [reqs EXCEPT ![c] = HealthReq(reqs[c])]
    /\ UNCHANGED <<registry, origin, heap, now, written, last, backend>>

\* the body of a POST is read and decoded
Decode(c) ==
    /\ reqs[c].stage = "received"
    /\ RouteOf(backend, reqs[c].request).handler \in {"invoke", "query", "do_POST"}
    /\ reqs' = [reqs EXCEPT ![c] = DecodeReq(backend, reqs[c])]
    /\ backend' = ServerAfter(backend, reqs'[c])
    /\ UNCHANGED <<registry, origin, heap, now, written, last>>

Route(c) ==
    /\ reqs[c].stage = "decoded"
    /\ \E uflow \in DrawsFor(reqs[c], "flow"), uid \in DrawsFor(reqs[c], "id") :
           reqs' = [reqs EXCEPT ![c] = RouteReq(backend, reqs[c], registry, uflow, uid)]
    /\ backend' = ServerAfter(backend, reqs'[c])
    /\ UNCHANGED <<registry, origin, heap, now, written, last>>

\* handler.handle or storage.find runs for the routed request
HandleRequest(c) ==
    /\ reqs[c].stage = "routed"
    /\ \E r \in {HandleReq(backend, reqs[c], heap, now)} :
           /\ reqs' = [reqs EXCEPT ![c] = r.q]
           /\ heap' = r.heap
           /\ written' = written \cup
                  UNION {PutsOf(r.access[i].storage, <<r.access[i]>>) : i \in 1..Len(r.access)}
    /\ backend' = ServerAfter(backend, reqs'[c])
    /\ UNCHANGED <<registry, origin, now, last>>

\* the event loop resumes the suspended operation
Resume(c) ==
    /\ reqs[c].stage = "suspended"
    /\ \E r \in {ResumeReq(backend, reqs[c], heap, now)} :
           /\ reqs' = [reqs EXCEPT ![c] = r.q]
           /\ heap' = r.heap
           /\ written' = written \cup
                  UNION {PutsOf(r.access[i].storage, <<r.access[i]>>) : i \in 1..Len(r.access)}
    /\ backend' = ServerAfter(backend, reqs'[c])
    /\ UNCHANGED <<registry, origin, now, last>>

Encode(c) ==
    /\ reqs[c].stage = "handled"
    /\ reqs' = [reqs EXCEPT ![c] = EncodeReq(reqs[c])]
    /\ UNCHANGED <<registry, origin, heap, now, written, last, backend>>

Send(c) ==
    /\ reqs[c].stage = "encoded"
    /\ reqs' = [reqs EXCEPT ![c] = SendReq(reqs[c])]
    /\ UNCHANGED <<registry, origin, heap, now, written, last, backend>>

\* serve() is called with the handlers of the module registered, each with
\* its own storage
InitServer ==
    /\ backend \in Backends
    /\ \E cls \in {EchoHandler, ProbeHandler} :
           registry = ("urn:test/Echo" :> [handler |-> [cls |-> cls.name], storage |-> 1])
                   @@ ("urn:app/Password" :> [handler |-> [cls |-> "PasswordHandler"], storage |-> 2])
    /\ origin = [u \in ConceptIds |-> FALSE]
    /\ heap = <<EmptyStorage, EmptyStorage>>
    /\ now = 0
    /\ written = {}
    /\ last = Idle
    /\ reqs = [c \in Clients |-> NoRequest]

NextServer ==
    \/ \E c \in Clients, req \in ServerRequests : Receive(c, req)
    \/ \E c \in Clients : Reject(c)
    \/ \E c \in Clients : Health(c)
    \/ \E c \in Clients : Decode(c)
    \/ \E c \in Clients : Route(c)
    \/ \E c \in Clients : HandleRequest(c)
    \/ \E c \in Clients : Encode(c)
    \/ \E c \in Clients : Send(c)

SpecServer == InitServer /\ [][NextServer]_vars

\* the steps of the server on the request of client c
ServerStep(c) ==
    \/ Reject(c)
    \/ Health(c)
    \/ Decode(c)
    \/ Route(c)
    \/ HandleRequest(c)
    \/ Resume(c)
    \/ Encode(c)
    \/ Send(c)

\* The event loop runs every task that is ready and http.server runs do_POST
\* and do_GET to their end: a request that can take a step takes one.
SpecServerFair == SpecServer /\ \A c \in Clients : WF_vars(ServerStep(c))

----------------------------------------------------------------------------
(* A server with a counter concept, for requests that read and write the    *)
(* same key                                                                 *)

CounterKeys == {"k", "j"}

CounterRequests ==
    {HttpRequest("POST", "/invoke",
                 JsonText(ToJson(FullBody("urn:app/Counter", a, Dict([key |-> Str(k)]))))) :
         a \in {"increment", "increment_slow"}, k \in CounterKeys}
    \cup {HttpRequest("POST", "/invoke",
                      JsonText(ToJson(FullBody("urn:app/Counter", "increment_slow", EmptyDict)))),
          HttpRequest("GET", "/health", NoBytes),
          HttpRequest("GET", "/other", NoBytes)}

\* the counter stored for key k in storage st
Stored(st, k) == CounterOf(StGet(st, "counter", k).ret)

InitCounter ==
    /\ backend \in Backends
    /\ registry = ("urn:app/Counter" :> [handler |-> [cls |-> "CounterHandler"], storage |-> 1])
    /\ origin = ("urn:app/Counter" :> FALSE)
    /\ heap = <<EmptyStorage>>
    /\ now = 0
    /\ written = {}
    /\ last = Idle
    /\ reqs = [c \in Clients |-> NoRequest]

NextCounter ==
    \/ \E c \in Clients, req \in CounterRequests :
           /\ \A k \in CounterKeys : Stored(heap[1], k) < MaxCount
           /\ Receive(c, req)
    \/ \E c \in Clients : ServerStep(c)

SpecCounter == InitCounter /\ [][NextCounter]_vars

----------------------------------------------------------------------------
(* Properties of the storage *)

\* the positions of relation r of storage st that hold key k
EntriesOf(st, r, k) ==
    IF r \in DOMAIN st THEN {i \in 1..Len(st[r]) : st[r][i].key = k} ELSE {}

\* the positions of relation r of storage st that hold value v
PositionsOf(st, r, v) ==
    IF r \in DOMAIN st THEN {i \in 1..Len(st[r]) : st[r][i].value = v} ELSE {}

Count(seq, v) == Cardinality({i \in 1..Len(seq) : seq[i] = v})

\* the filter semantics the specification states: every filter key is a field
\* of the value and the field equals the filter's value; no filter keeps all
Selected(v, args) ==
    args = None \/ \A k \in DOMAIN args.f : HasField(v, k) /\ v.f[k] = args.f[k]

\* C7: after put(r, k, v), get(r, k) returns exactly v, and r holds exactly
\* one entry for k; this covers a put over an earlier put of the same key.
C7_PutThenGet ==
    last.op = "put" =>
        /\ StGet(heap[last.sid], last.relation, last.key).ret = last.value
        /\ Cardinality(EntriesOf(heap[last.sid], last.relation, last.key)) = 1

\* a put has overwritten a different value stored under the same key
C7_Witness ==
    /\ last.op = "put"
    /\ last.present
    /\ last.old # last.value

\* C8: delete returns true exactly when the key was present at the call;
\* after a delete, get returns absent and a second delete returns false;
\* for a cell never written, get returns absent and delete returns false.
C8_Delete ==
    /\ last.op = "delete" =>
            /\ last.ret = last.present
            /\ StGet(heap[last.sid], last.relation, last.key).ret = None
            /\ StDelete(heap[last.sid], last.relation, last.key).ret = FALSE
    /\ \A s \in 1..Len(heap), r \in Relations, k \in Keys :
            <<s, r, k>> \notin written =>
                /\ StGet(heap[s], r, k).ret = None
                /\ StDelete(heap[s], r, k).ret = FALSE

\* a delete has removed a stored entry while another cell was never written
C8_Witness ==
    /\ last.op = "delete"
    /\ last.present
    /\ last.ret = TRUE
    /\ \E r \in Relations, k \in Keys : <<last.sid, r, k>> \notin written

\* C9: find(r, filter) returns exactly the multiset of the values stored in r
\* whose fields equal the filter's value for every filter key, and all the
\* values stored in r when there is no filter.
C9_FindExact ==
    (last.op = "find" /\ (last.args = None \/ IsDict(last.args))) =>
        /\ \A i \in 1..Len(last.ret) : last.ret[i] \in Values
        /\ \A v \in Values :
              Count(last.ret, v) =
                  IF Selected(v, last.args)
                  THEN Cardinality(PositionsOf(heap[last.sid], last.relation, v))
                  ELSE 0

\* C10: find never returns a stored value that lacks one of the filter's
\* keys, whatever the filter's values are (a null value included).
C10_AbsentNeverMatches ==
    (last.op = "find" /\ IsDict(last.args)) =>
        \A i \in 1..Len(last.ret) :
            \A k \in DOMAIN last.args.f : HasField(last.ret[i], k)

\* C11: within one storage instance, a put or a delete on a relation leaves
\* what get returns for every key (the written key included) and what find
\* returns for every filter unchanged in every other relation.
C11_RelationsIsolated ==
    [][last'.op \in {"put", "delete"} =>
          \A r2 \in Relations \ {last'.relation} :
              /\ \A k \in Keys :
                     StGet(heap'[last'.sid], r2, k).ret = StGet(heap[last'.sid], r2, k).ret
              /\ \A f \in Filters :
                     StFind(heap'[last'.sid], r2, f).ret = StFind(heap[last'.sid], r2, f).ret]_vars

\* a put has written a key that another relation of the storage holds with
\* a different value
C11_Witness ==
    /\ last.op = "put"
    /\ \E r2 \in DOMAIN heap[last.sid] \ {last.relation} :
           /\ StGet(heap[last.sid], r2, last.key).ret # None
           /\ StGet(heap[last.sid], r2, last.key).ret # last.value

----------------------------------------------------------------------------
(* Properties of dispatch *)

\* C2: for an action name that is no action operation declared by the
\* concrete handler, handle returns the "Unknown action" error and does not
\* raise.
C2_UnknownAction ==
    (last.op = "handle" /\ last.action \notin DOMAIN ClassOf(last.cls).methods) =>
        /\ ~last.raised
        /\ last.value = ErrorResult("Unknown action: " \o last.action)

\* C3: an action name that resolves to a sync method gets the "must be
\* async" error, the method is not invoked and the storage is unchanged.
C3_SyncRejected ==
    LET attr == GetAttr([cls |-> last.cls], last.action)
    IN  (last.op = "handle" /\ attr.found /\ ~attr.async) =>
            /\ ~last.raised
            /\ last.value = ErrorResult("Action '" \o last.action \o "' must be async")
            /\ last.calls = <<>>
            /\ last.access = <<>>
            /\ ~last.changed

\* the sync method that would change the storage has been dispatched
C3_Witness ==
    /\ last.op = "handle"
    /\ last.cls = "ProbeHandler"
    /\ last.action = "touch"
    /\ ~last.raised
    /\ last.value.f["variant"] = Str("error")

\* C4: when the async operation returns a dict with a variant, handle
\* returns exactly that dict.
C4_PassThrough ==
    (/\ last.op = "handle"
     /\ last.calls # <<>>
     /\ ~last.raised
     /\ IsDict(last.raw)
     /\ HasField(last.raw, "variant")) => last.value = last.raw

\* an operation has returned its own error variant with its own message
C4_Witness ==
    /\ last.op = "handle"
    /\ last.calls # <<>>
    /\ ~last.raised
    /\ last.raw = Dict([variant |-> Str("error"), message |-> Str("intentional failure")])
    /\ last.value = last.raw

----------------------------------------------------------------------------
(* Properties of /invoke and /query *)

\* the concept, action and input a request body stands for
ConceptOf(body) == DictGet(body, "concept", Str("")).s
ActionOf(body) == DictGet(body, "action", Str("")).s
InputOf(body) == DictGet(body, "input", EmptyDict)

\* C1: the output of every completion /invoke produces has a variant, and
\* the completion's variant equals it.
C1_VariantInOutput ==
    (last.op = "invoke" /\ ~last.raised) =>
        LET output == last.response.f["output"]
        IN  /\ IsDict(output)
            /\ HasField(output, "variant")
            /\ last.response.f["variant"] = output.f["variant"]

\* an operation has run and returned None, which is no dict, and the
\* completion carries the error put in its place
C1_Witness ==
    /\ last.op = "invoke"
    /\ ~last.raised
    /\ ActionOf(last.body) = "ret_none"
    /\ last.calls # <<>>
    /\ last.calls[1].handler.cls = "ProbeHandler"
    /\ last.response.f["variant"] = Str("error")
    /\ last.response.f["output"] =
           ErrorResult("Action 'ret_none' must return dict with 'variant' key")

\* C5: an /invoke of a registered concept U with an action A that is an
\* async operation of the bound handler's class runs that operation exactly
\* once, on the handler bound to U, with the body's input and the storage
\* bound to U, and changes no other storage.
C5_RoutesToBound ==
    LET U == ConceptOf(last.body)
        A == ActionOf(last.body)
    IN  (/\ last.op = "invoke"
         /\ U \in DOMAIN registry
         /\ A \in DOMAIN ClassOf(registry[U].handler.cls).methods
         /\ ClassOf(registry[U].handler.cls).methods[A].async) =>
            /\ last.calls = << [handler |-> registry[U].handler, method |-> A,
                                input |-> InputOf(last.body),
                                storage |-> registry[U].storage] >>
            /\ HasField(last.body, "input") =>
                    last.calls[1].input = last.body.f["input"]
            /\ \A i \in 1..Len(last.access) :
                    last.access[i].storage = registry[U].storage
            /\ last.changedAt \subseteq {registry[U].storage}

\* with two concepts bound to different handlers and storages, an invocation
\* of one has written its storage
C5_Witness ==
    /\ last.op = "invoke"
    /\ DOMAIN registry = ConceptIds
    /\ registry["urn:test/Echo"].storage # registry["urn:app/Password"].storage
    /\ ConceptOf(last.body) = "urn:app/Password"
    /\ ActionOf(last.body) = "set"
    /\ Len(last.calls) = 1
    /\ last.changedAt = {registry["urn:app/Password"].storage}

\* C6: for a concept without binding, /invoke returns the "Unknown concept"
\* error completion and /query the empty sequence; no operation runs and
\* no storage is read or written.
C6_UnknownConcept ==
    LET U == ConceptOf(last.body)
    IN  /\ (last.op = "invoke" /\ U \notin DOMAIN registry) =>
                /\ ~last.raised
                /\ last.response.f["variant"] = Str("error")
                /\ last.response.f["output"] = ErrorResult("Unknown concept: " \o U)
                /\ last.calls = <<>>
                /\ last.access = <<>>
                /\ last.changedAt = {}
        /\ (last.op = "query" /\ U \notin DOMAIN registry) =>
                /\ last.response = <<>>
                /\ last.calls = <<>>
                /\ last.access = <<>>
                /\ last.changedAt = {}

\* an unbound concept has been invoked while another concept is bound to a
\* storage that holds an entry
C6_Witness ==
    /\ last.op = "invoke"
    /\ ConceptOf(last.body) = "urn:test/Echo"
    /\ DOMAIN registry = {"urn:app/Password"}
    /\ written # {}
    /\ last.response.f["variant"] = Str("error")

\* C17: a completion carries the concept, the action and the input of the
\* invocation, its id and its flow when the body has them, and a generated,
\* non-empty id or flow when the body has none; this holds on the
\* unknown-concept path as on the handler path.
C17_CompletionEchoes ==
    (last.op = "invoke" /\ ~last.raised) =>
        LET c == last.response.f
            Generated == {Str(u) : u \in UUIDs}
        IN  /\ c["concept"] = DictGet(last.body, "concept", Str(""))
            /\ c["action"] = DictGet(last.body, "action", Str(""))
            /\ c["input"] = DictGet(last.body, "input", EmptyDict)
            /\ IF HasField(last.body, "id") THEN c["id"] = last.body.f["id"]
               ELSE c["id"] \in Generated /\ c["id"] # Str("")
            /\ IF HasField(last.body, "flow") THEN c["flow"] = last.body.f["flow"]
               ELSE c["flow"] \in Generated /\ c["flow"] # Str("")

\* an invocation of an unbound concept that has a flow and no id has been
\* answered with a generated id that differs from the flow
C17_Witness ==
    /\ last.op = "invoke"
    /\ ~last.raised
    /\ ~last.handled
    /\ HasField(last.body, "flow")
    /\ ~HasField(last.body, "id")
    /\ last.response.f["id"] # last.response.f["flow"]
    /\ last.response.f["flow"] = last.body.f["flow"]

\* C18: /query on a bound concept answers exactly what find(relation, args)
\* returns on the storage bound to the concept when the query is made, which
\* holds what the completed invocations have put and deleted; the query
\* changes no relation that exists.
C18_QueryIsFind ==
    [][(last'.op = "query" /\ ConceptOf(last'.body) \in DOMAIN registry) =>
          /\ last'.raised =
                 StFind(heap[registry[ConceptOf(last'.body)].storage],
                        DictGet(last'.body, "relation", Str("")).s,
                        DictGet(last'.body, "args", None)).raised
          /\ last'.response =
                 StFind(heap[registry[ConceptOf(last'.body)].storage],
                        DictGet(last'.body, "relation", Str("")).s,
                        DictGet(last'.body, "args", None)).ret
          /\ Len(heap') = Len(heap)
          /\ \A sid \in 1..Len(heap) : \A r \in DOMAIN heap[sid] :
                 r \in DOMAIN heap'[sid] /\ heap'[sid][r] = heap[sid][r]]_vars

\* a query with a filter has answered with fewer values than the relation
\* holds after an invocation has written it
C18_Witness ==
    /\ last.op = "query"
    /\ ConceptOf(last.body) \in DOMAIN registry
    /\ HasField(last.body, "args")
    /\ written # {}
    /\ Len(last.response)
           < Len(StFind(heap[registry[ConceptOf(last.body)].storage],
                        last.body.f["relation"].s, None).ret)

----------------------------------------------------------------------------
(* Properties of the registry *)

\* C12: a registration binds its identifier to the pair it was made with,
\* whatever the identifier was bound to, and leaves every other binding as
\* it is; a binding goes away only when the registry is cleared, and
\* requests change no binding.
C12_LastRegistrationWins ==
    [][/\ last'.op = "register" =>
              /\ DOMAIN registry' = DOMAIN registry \cup {last'.uri}
              /\ registry'[last'.uri] = [handler |-> last'.handler, storage |-> last'.storage]
              /\ \A u \in DOMAIN registry \ {last'.uri} : registry'[u] = registry[u]
       /\ last'.op # "clear" => DOMAIN registry \subseteq DOMAIN registry'
       /\ last'.op \notin {"register", "clear"} => registry' = registry]_vars

\* a registration has replaced the handler class and the storage bound to
\* an identifier while another identifier is bound
C12_Witness ==
    /\ last.op = "register"
    /\ last.replaced # None
    /\ last.replaced.handler # last.handler
    /\ last.replaced.storage # last.storage
    /\ DOMAIN registry = ConceptIds

\* the bound identifiers that share their storage
Sharing(reg) == {p \in (DOMAIN reg) \X (DOMAIN reg) : p[1] # p[2] /\ reg[p[1]].storage = reg[p[2]].storage}

\* a registration without storage binds a new, empty storage that no other
\* entry holds; one with a storage binds the supplied storage
BindsItsStorage ==
    last.op = "register" =>
        IF last.supplied = 0
        THEN /\ heap[registry[last.uri].storage] = EmptyStorage
             /\ \A u \in DOMAIN registry \ {last.uri} :
                    registry[u].storage # registry[last.uri].storage
        ELSE registry[last.uri].storage = last.supplied

\* an invocation changes what /query answers only for the concepts bound to
\* the storage of the invoked concept
WritesStayInStorage ==
    [][(last'.op = "invoke" /\ heap' # heap) =>
          \A q \in QueryBodies :
              (/\ ConceptOf(q) \in DOMAIN registry
               /\ ConceptOf(last'.body) \in DOMAIN registry =>
                      registry[ConceptOf(q)].storage # registry[ConceptOf(last'.body)].storage)
              => HandleQuery(q, registry, heap').response
                     = HandleQuery(q, registry, heap).response]_vars

\* C13 as stated: a registration without storage binds a new empty storage
\* no other entry holds and one with a storage binds that storage; two
\* identifiers share a storage only if the caller supplied it to both;
\* otherwise a write through one is not visible to /query on the other.
C13_SharedOnlyIfSuppliedToBoth ==
    /\ [](BindsItsStorage /\ \A p \in Sharing(registry) : origin[p[1]] /\ origin[p[2]])
    /\ WritesStayInStorage

\* C13 amended: two identifiers share a storage only if the caller supplied
\* it at the registration of at least one of them; the other may hold it as
\* the storage it was given by default.
C13_SharedOnlyIfSupplied ==
    /\ [](BindsItsStorage /\ \A p \in Sharing(registry) : origin[p[1]] \/ origin[p[2]])
    /\ WritesStayInStorage

\* a registration without storage has been made while another identifier is
\* bound to a storage that holds entries
C13_Witness ==
    /\ last.op = "register"
    /\ last.supplied = 0
    /\ \E u \in DOMAIN registry \ {last.uri} : heap[registry[u].storage] # EmptyStorage
    /\ written # {}

----------------------------------------------------------------------------
(* Properties of the servers *)

\* C22: in the fallback backend at most one request is in progress, from
\* received up to its end, so every event of a request (its stages, its
\* handler operations and storage calls) happens while no other request is
\* in progress.
C22_FallbackSerial ==
    backend = "stdlib" => Cardinality(InProgress(reqs)) <= 1

\* the fallback is handling an invocation after it has ended a request of
\* another client that wrote a storage
C22_Witness ==
    /\ backend = "stdlib"
    /\ written # {}
    /\ \E c \in Clients, d \in Clients :
           /\ reqs[c].stage = "routed"
           /\ reqs[c].request.path = "/invoke"
           /\ reqs[d].stage = "sent"
           /\ reqs[d].request.path = "/invoke"
           /\ reqs[d].response.status = 200

\* the requests of the clients that have ended
\* request q invokes operation a of the counter concept on key k, and has
\* been routed
Increments(q, a, k) ==
    /\ q.stage \in {"routed", "suspended", "handled", "encoded", "sent"}
    /\ q.request.path = "/invoke"
    /\ q.call.entry # None
    /\ q.call.entry.handler.cls = "CounterHandler"
    /\ q.call.action = Str(a)
    /\ q.call.input = Dict([key |-> Str(k)])

CounterOps == {"increment", "increment_slow"}

\* the counter the invocation has returned
Returns(q, n) == q.stage \in {"handled", "encoded", "sent"} /\ q.result.f["output"].f["n"] = Number(n)

\* two invocations on key k have both returned the same counter: both have
\* read the key before either has written it, and one update is lost
LostUpdate(c, d, k) ==
    /\ c # d
    /\ \E a \in CounterOps : Increments(reqs[c], a, k)
    /\ \E a \in CounterOps : Increments(reqs[d], a, k)
    /\ \E n \in 1..(MaxCount + 1) : Returns(reqs[c], n) /\ Returns(reqs[d], n)

\* the step of client c from routed, with the request of another client
\* routed to an operation on the same key
ReadsFirst(c, a, k) ==
    /\ backend = "aiohttp"
    /\ reqs[c].stage = "routed"
    /\ Increments(reqs[c], a, k)
    /\ reqs'[c] # reqs[c]
    /\ \E d \in Clients \ {c}, b \in CounterOps :
           reqs[d].stage = "routed" /\ Increments(reqs[d], b, k)

\* client c has read key k and not written it: the stored counter is as
\* before, and the other request can read it too
ReadNotWritten(c, k) ==
    /\ reqs'[c].stage = "suspended"
    /\ Stored(heap'[1], k) = Stored(heap[1], k)

\* C23 as stated: under the concurrent backend the get-then-put of an
\* in-flight invocation is not atomic; when two in-flight invocations are
\* about to read and write the same key of the same storage, the one that
\* reads first has not written when its get has answered, so the other can
\* read before it writes.
C23_GetThenPutNotAtomic ==
    [][\A c \in Clients, a \in CounterOps, k \in CounterKeys :
          ReadsFirst(c, a, k) => ReadNotWritten(c, k)]_vars

\* C23 as amended: the get-then-put of an in-flight invocation is not atomic
\* when the operation awaits the event loop between the two, and then both
\* invocations can read before either writes; a put that follows its get
\* with no such await is written in the step of the get.  Only an operation
\* with such an await is ever between its get and its put, and an update is
\* lost only under the concurrent backend.
C23_NotAtomicWhenSuspended ==
    /\ [](\A c \in Clients :
             /\ reqs[c].stage = "suspended" =>
                    \E k \in CounterKeys : Increments(reqs[c], "increment_slow", k)
             /\ \A d \in Clients, k \in CounterKeys :
                    LostUpdate(c, d, k) => backend = "aiohttp")
    /\ [][\A c \in Clients, k \in CounterKeys :
             /\ ReadsFirst(c, "increment_slow", k) => ReadNotWritten(c, k)
             /\ ReadsFirst(c, "increment", k) =>
                    /\ reqs'[c].stage = "handled"
                    /\ Stored(heap'[1], k) = Stored(heap[1], k) + 1]_vars

\* the lost update: two invocations of increment_slow on key k have been
\* answered with counter 1, and the stored counter is 1
C23_Witness ==
    /\ backend = "aiohttp"
    /\ LostUpdate("c1", "c2", "k")
    /\ \A c \in Clients :
           /\ Increments(reqs[c], "increment_slow", "k")
           /\ reqs[c].stage = "sent"
           /\ reqs[c].response.status = 200
           /\ Returns(reqs[c], 1)
    /\ Stored(heap[1], "k") = 1

Ended == {c \in Clients : Done(reqs[c])}

HealthRequest == HttpRequest("GET", "/health", NoBytes)

IsPost(req, paths) == req.method = "POST" /\ req.path \in paths
HasObjectBody(req) == req.text.kind = "json" /\ req.text.doc.j = "object"

\* C21: under fair scheduling every received /invoke or /query request
\* eventually reaches the sent stage, in both backends and whatever other
\* requests are in progress (every operation of the model resolves).
C21_EventuallySent ==
    \A c \in Clients :
        (reqs[c].stage = "received" /\ IsPost(reqs[c].request, {"/invoke", "/query"}))
            ~> (reqs[c].stage = "sent")

\* the invocation of q has ended with an exception of its handler operation
HandlerFaulted(q) ==
    /\ Faulted(q)
    /\ q.request.path = "/invoke"
    /\ \E i \in 1..Len(q.trace) : q.trace[i] = "op"

\* C24: an exception of a handler operation during /invoke is confined to
\* its request in both backends.  The step in which it is raised ends that
\* request and leaves the server running, the registry and the requests of
\* the other clients as they are; in every state after it the server is
\* running, takes the next request when no request bars it, and answers
\* GET /health with 200 and the health document.
C24_FaultConfined ==
    /\ [](\A d \in Clients :
             HandlerFaulted(reqs[d]) =>
                 /\ backend \in Backends
                 /\ CanAccept(backend, reqs) => ENABLED Receive(d, HealthRequest)
                 /\ Exchange(backend, HealthRequest, registry, heap, now,
                             "uuid-1", "uuid-1").q.response
                        = Response(200, JsonDumps(HealthStatus)))
    /\ [][\A c \in Clients :
             (reqs[c].stage = "routed" /\ HandlerFaulted(reqs'[c])) =>
                 /\ backend' = backend
                 /\ registry' = registry
                 /\ \A d \in Clients \ {c} : reqs'[d] = reqs[d]]_vars

\* the fallback, which takes one request at a time, is answering GET /health
\* after an invocation whose handler operation raised has ended with the
\* connection closed
C24_Witness ==
    /\ backend = "stdlib"
    /\ \E c \in Clients, d \in Clients :
           /\ HandlerFaulted(reqs[d])
           /\ reqs[d].stage = "closed"
           /\ reqs[c].stage = "encoded"
           /\ reqs[c].request = HealthRequest
           /\ reqs[c].payload = JsonDumps(HealthStatus)

\* C14: from the same state, the two backends answer every request with the
\* same status and the same JSON body, a generated id and flow apart, and
\* leave the same storages.
C14_BackendsAgree ==
    \A req \in ServerRequests :
        \E a \in {Exchange("aiohttp", req, registry, heap, now, "uuid-1", "uuid-2")},
           b \in {Exchange("stdlib", req, registry, heap, now, "uuid-1", "uuid-2")} :
            /\ a.q.response.sent = b.q.response.sent
            /\ a.q.response.status = b.q.response.status
            /\ a.q.response.status = 200 => a.q.response.body = b.q.response.body
            /\ a.heap = b.heap

\* C15: a POST to /invoke or /query whose body is a JSON object is answered
\* with status 200 whatever its processing comes to, and a response with
\* another status is the response to a request that has no such body or
\* no route.
C15_Status200 ==
    \A c \in Ended :
        /\ (IsPost(reqs[c].request, {"/invoke", "/query"}) /\ HasObjectBody(reqs[c].request)) =>
               reqs[c].response.sent /\ reqs[c].response.status = 200
        /\ (reqs[c].response.sent /\ reqs[c].response.status # 200) =>
               ~(IsPost(reqs[c].request, {"/invoke", "/query"}) /\ HasObjectBody(reqs[c].request))

\* C16: a POST whose body is no JSON text, and a request for a path that
\* has no route, are answered with a 4xx status.
C16_ClientError ==
    \A c \in Ended :
        (\/ reqs[c].request.method = "POST" /\ reqs[c].request.text \in {Garbage, Undecodable}
         \/ reqs[c].request.path \notin {"/invoke", "/query", "/health"}
                /\ reqs[c].request.method \in {"GET", "POST"}) =>
            /\ reqs[c].response.sent
            /\ reqs[c].response.status \in 400..499

\* C19: in both backends GET /health is answered with status 200 and the
\* body {"healthy": true, "latencyMs": 0}, whatever the storages hold; it
\* has no failing outcome; and it is taken whatever other requests are in
\* progress: a client with no request in progress can send it at any time.
C19_HealthOk ==
    \A c \in Clients :
        /\ (/\ reqs[c].stage # "none"
            /\ reqs[c].request.method = "GET"
            /\ reqs[c].request.path = "/health") =>
               /\ reqs[c].stage \in {"received", "encoded", "sent"}
               /\ Done(reqs[c]) =>
                      /\ reqs[c].response.sent
                      /\ reqs[c].response.status = 200
                      /\ reqs[c].response.body =
                             JsonText(JObject([healthy |-> JBool(TRUE),
                                               latencyMs |-> JNumber(0)]))
        /\ (reqs[c].stage = "none" \/ Done(reqs[c])) => ENABLED Receive(c, HealthRequest)

StageRank(e) ==
    CASE e = "received" -> 1 [] e = "decoded" -> 2 [] e = "routed" -> 3
      [] e = "handled" -> 4 [] e = "encoded" -> 5 [] e = "sent" -> 6 [] OTHER -> 0

\* C20: the events of every /invoke and /query request are its stages in
\* the order received, decoded, routed, handled, encoded, sent, none of them
\* twice; the handler operations and storage calls come after routed and
\* before encoded; a request that has ended has got exactly one response.
C20_StagesInOrder ==
    \A c \in Clients :
        (reqs[c].stage # "none" /\ IsPost(reqs[c].request, {"/invoke", "/query"})) =>
            LET tr == reqs[c].trace
            IN  /\ \A i \in 1..Len(tr), j \in 1..Len(tr) :
                       (i < j /\ StageRank(tr[i]) # 0 /\ StageRank(tr[j]) # 0) =>
                           StageRank(tr[i]) < StageRank(tr[j])
                /\ \A i \in 1..Len(tr) :
                       tr[i] \in {"op", "access"} =>
                           /\ \E j \in 1..(i - 1) : tr[j] = "routed"
                           /\ \A j \in 1..(i - 1) : tr[j] # "encoded"
                /\ Done(reqs[c]) =>
                       /\ Cardinality({i \in 1..Len(tr) : tr[i] = "sent"}) = 1
                       /\ reqs[c].response.sent

====
